---- MODULE Spec2Model ----
(***************************************************************************)
(* A model of GenotypeMerger.merge (src/src/cohort_delivery/merge.py): the *)
(* extraction of the cohort samples from every batch, the first merge      *)
(* attempt, the detection of conflicting markers through the .missnp side  *)
(* file, the single correction round, the promotion of a clean attempt,    *)
(* the counting of the persisted files and the optional VCF export.        *)
(*                                                                         *)
(* The external PLINK binary is the environment.  Every invocation either  *)
(* does what the PLINK options on its command line do (--keep, --exclude,  *)
(* --merge-list, --make-bed, --recode vcf) or exits nonzero.               *)
(***************************************************************************)
EXTENDS Integers, Sequences, FiniteSets, TLC

\* ---------------------------------------------------------------- bounds
\* The longest batch_prefixes list a call is given.
MaxBatches == 2
\* The longest conflict-marker (.missnp) file the merge tool writes.
MaxMissnpLines == 2

Samples == {"s1", "s2", "s3"}
Markers == {"m1", "m2", "m3"}

\* -------------------------------------------------------- files and paths
Prefix(d, n) == [dir |-> d, name |-> n]

\* A dataset is the .bed/.bim/.fam triple at a prefix: its sample records
\* (.fam) and its marker records (.bim).
Dataset(s, m) == [exists |-> TRUE, samples |-> s, markers |-> m]
NoData == [exists |-> FALSE, samples |-> {}, markers |-> {}]

\* A text file is its lines.
TextFile(l) == [exists |-> TRUE, lines |-> l]
NoFile == [exists |-> FALSE, lines |-> <<>>]

\* The empty string, as an argument not given and as the report's default
\* output_prefix.
NoArg == Prefix("", "")

\* PipelineConfig.project_id: its default, and the identifiers a run is
\* configured with.
DefaultProjectId == "PROJ001"
ProjectIds == {DefaultProjectId, ""}

\* The project identifier the deployment delivers under: config.project_id
\* of the run, and the identifier in the names earlier runs left on disk.
VARIABLE project_id

\* work_dir of the call (merge.py:108).
WorkDir == "work"

\* str(dd / f"{config.project_id}_final_genotypes")
OutputPrefixOf(pid) == Prefix("delivery", pid \o "_final_genotypes")

\* output_prefix of the call
OutputPrefix == OutputPrefixOf(project_id)

\* The batches on disk before any run: two batches sharing one sample, a
\* third one in another directory with the base name of the first, and a
\* prefix that resolves to no dataset.
BatchA == Prefix("in1", "a")
BatchB == Prefix("in1", "b")
BatchA2 == Prefix("in2", "a")
BatchMissing == Prefix("in1", "zz")
BatchPrefixes == {BatchA, BatchB, BatchA2, BatchMissing}

SourceData(p) ==
    CASE p = BatchA -> Dataset({"s1", "s2"}, {"m1", "m2", "m3"})
      [] p = BatchB -> Dataset({"s2", "s3"}, {"m1", "m2", "m3"})
      [] p = BatchA2 -> Dataset({"s3"}, {"m2", "m3"})
      [] OTHER -> NoData

\* Path(bp).name
PathName(bp) == bp.name

\* str(wd / f"{name}_subset")
SubsetPath(bp) == Prefix(WorkDir, PathName(bp) \o "_subset")

\* str(wd / f"{name}_corrected")
CorrectedPath(bp) == Prefix(WorkDir, PathName(bp) \o "_corrected")

\* str(wd / "merge_attempt")
FirstAttempt == Prefix(WorkDir, "merge_attempt")

\* f"{first_attempt}-merge.missnp"
MissnpPath == "work/merge_attempt-merge.missnp"

DataPaths ==
    BatchPrefixes \cup {SubsetPath(p) : p \in BatchPrefixes}
        \cup {CorrectedPath(p) : p \in BatchPrefixes}
        \cup {FirstAttempt} \cup {OutputPrefixOf(pid) : pid \in ProjectIds}

Range(s) == {s[i] : i \in 1..Len(s)}
SeqsUpTo(S, n) == UNION {[1..k -> S] : k \in 0..n}

\* The inputs an operation is offered: those of S once it can be called.
When(ready, S) == IF ready THEN S ELSE {}
Tail1(s) == SubSeq(s, 2, Len(s))

VARIABLES
    pc,              \* position in merge()
    plink_exec,      \* GenotypeMerger(plink_exec): the executable run
    batch_prefixes,  \* argument
    keep_list,       \* content of the keep-list file (sample identifiers)
    convert_to_vcf,  \* argument
    data,            \* DataPaths -> dataset (.bed/.bim/.fam) or NoFile
    missnp,          \* <first_attempt>-merge.missnp: lines, or NoFile
    out_missnp,      \* <output_prefix>-merge.missnp: lines, or NoFile
    merge_list,      \* work/merge_list.txt: prefixes, or NoFile
    corrected_list,  \* work/merge_list_corrected.txt: prefixes, or NoFile
    vcf,             \* <output_prefix>.vcf.gz: exported dataset, or NoFile
    logs,            \* the prefixes p of DataPaths with a file <p>.log
    subset_prefixes,
    corrected_prefixes,
    report,          \* the MergeReport being built
    result,          \* "none" while running, then "returned" or "raised"
    exc,             \* the exception merge() raised, "" when none
    cmds             \* the PLINK commands issued, in order (logger.info)

\* SecureTransfer.send
VARIABLES
    xfer_pc,         \* position in send()
    src_dir,         \* the source_dir path when send() is called directly
    dest_dir,        \* <dest_root>/<project_id>_Delivery_<datestamp>
    method,          \* argument
    xfer_report,     \* the TransferReport being filled in
    xfer_result,     \* "none", "returned" or the exception raised
    dest_before,     \* dest_dir as it was when send() was called
    listed,          \* src_files and dst_files: the names listed
    tampered         \* a destination file was removed during the call

mergeVars == <<pc, plink_exec, exc, batch_prefixes, keep_list, convert_to_vcf, data, missnp,
               out_missnp, merge_list, corrected_list, vcf, logs,
               subset_prefixes, corrected_prefixes, report, result, cmds>>

xferVars == <<xfer_pc, src_dir, dest_dir, method, xfer_report, xfer_result,
              dest_before, listed, tampered>>

\* DeliveryPipeline.run
VARIABLES
    pipe_pc,         \* position in run(); "off" when run() is not in use
    config,          \* the PipelineConfig
    filtered,        \* work/cohort_filtered.txt: lines, or NoFile
    delivery_files,  \* files of the delivery directory besides the dataset
    pipe_result,     \* the PipelineResult being filled in
    pipe_status      \* "none", "returned" or the exception raised

pipeVars == <<project_id, pipe_pc, config, filtered, delivery_files,
              pipe_result, pipe_status>>

\* CohortFilter.apply called directly
VARIABLES
    flt_pc,          \* position in apply()
    flt_args,        \* the arguments of the call
    flt_report,      \* the FilterReport
    flt_status       \* "none", "returned" or the exception raised

fltVars == <<flt_pc, flt_args, flt_report, flt_status>>

vars == <<mergeVars, xferVars, pipeVars, fltVars>>

\* @dataclass MergeReport defaults
MergeReport(n) ==
    [batch_count |-> n, conflict_snp_count |-> 0, final_sample_count |-> 0,
     final_variant_count |-> 0, correction_applied |-> FALSE,
     output_prefix |-> NoArg]

\* One logged invocation: the operation, its --bfile, --merge-list, --out
\* and --exclude arguments, its exit status, and whether the exit was a
\* fault of the environment rather than an answer of the tool.
Cmd(op, bfile, list, out, excl, rc, fault) ==
    [op |-> op, bfile |-> bfile, list |-> list, out |-> out, excl |-> excl,
     rc |-> rc, fault |-> fault, started |-> TRUE]

\* subprocess.run gives no exit status when the program cannot be started.
NoExitStatus == -1

\* A logged invocation whose program could not be started.
NotStarted(c) ==
    [c EXCEPT !.rc = NoExitStatus, !.fault = TRUE, !.started = FALSE]

\* What starting the program does: it starts, or subprocess.run raises the
\* OSError of the exec (no such file, or a file that is not executable).
Started == "started"
StartErrors == {"FileNotFoundError", "PermissionError"}
Starts == {Started} \cup StartErrors

\* plink_exec as configured: the default, a path that names no file, and a
\* file without the execute permission.
DefaultPlinkExec == "plink"
NoSuchExec == "/no/such/plink"
NotExecutable == "./notexec"
PlinkExecs == {DefaultPlinkExec, NoSuchExec, NotExecutable}

\* The executable found on PATH can be gone, or no longer executable, when
\* it is run; a path that names no file, or a file that is not executable,
\* never starts.
StartOutcomes(exec) ==
    IF exec = NoSuchExec THEN {"FileNotFoundError"}
    ELSE IF exec = NotExecutable THEN {"PermissionError"}
    ELSE Starts

\* ------------------------------------------------------ the external tool
\* plink --bfile B --keep K --make-bed --out O [--exclude F]: the samples of
\* B that K lists, the markers of B that F does not list.  PLINK stops with
\* an error, and writes no dataset, when B does not exist or when no sample
\* or no marker remains.
ExtractOutput(src, keep, excl) ==
    Dataset(src.samples \cap keep, src.markers \ excl)

ExtractFails(src, keep, excl) ==
    \/ ~src.exists
    \/ src.samples \cap keep = {}
    \/ src.markers \ excl = {}

\* plink --bfile B --merge-list L --make-bed --out O: the merged dataset
\* holds every sample and every marker of the filesets merged.
MergeOutput(inputs) ==
    Dataset(UNION {inputs[i].samples : i \in 1..Len(inputs)},
            UNION {inputs[i].markers : i \in 1..Len(inputs)})

\* The markers two of the filesets merged can disagree on.
SharedMarkers(inputs) ==
    {m \in Markers : \E i, j \in 1..Len(inputs) :
        i # j /\ m \in inputs[i].markers /\ m \in inputs[j].markers}

\* What one merge invocation can do: write the merged dataset and exit 0;
\* write O-merge.missnp listing conflicting markers and exit nonzero without
\* a dataset; or exit nonzero having written nothing.
MergeOutcomes(inputs) ==
    IF \E i \in 1..Len(inputs) : ~inputs[i].exists
    THEN {[kind |-> "crash", lines |-> <<>>]}
    ELSE {[kind |-> "ok", lines |-> <<>>], [kind |-> "crash", lines |-> <<>>]}
         \cup {[kind |-> "conflict", lines |-> l] :
                 l \in SeqsUpTo(SharedMarkers(inputs), MaxMissnpLines) \ {<<>>}}

\* The outcomes of running a merge: those of the tool, or no start.
OutcomeKinds == {"ok", "crash", "conflict"} \cup StartErrors

\* Every way one merge run can end, over any inputs.
ToolOutcomes == [kind : OutcomeKinds, lines : SeqsUpTo(Markers, MaxMissnpLines)]

RunOutcomes(exec, inputs) ==
    {o \in MergeOutcomes(inputs) : Started \in StartOutcomes(exec)}
        \cup {[kind |-> e, lines |-> <<>>] :
                e \in StartOutcomes(exec) \cap StartErrors}

StartOf(kind) == IF kind \in StartErrors THEN kind ELSE Started

\* ------------------------------------------------------------ merge()
\* The check= flag of the first merge attempt (merge.py:163): a nonzero
\* exit does not raise.
FirstAttemptChecked == TRUE

FirstAttemptCheck == FALSE

\* The check= default of _run_plink, used by every other invocation.
DefaultCheckOff == FALSE

DefaultCheck == TRUE

\* subprocess.run(..., check=check) raises whatever check is when the
\* program cannot be started, and CalledProcessError on rc # 0 under check.
Raises(check, start, rc) == start # Started \/ (check /\ rc # 0)

\* The exception it raises.
Raised(start) == IF start # Started THEN start ELSE "CalledProcessError"

\* len(subset_prefixes) < 2
SkipsMergeOnlyEmpty(sp) == Len(sp) < 1

SkipsMerge(sp) == Len(sp) < 2

\* shutil.move of the attempt's .bed, .bim and .fam to the output prefix
PromotedByCopy(d) == [d EXCEPT ![OutputPrefix] = d[FirstAttempt]]

Promoted(d) ==
    [d EXCEPT ![OutputPrefix] = d[FirstAttempt], ![FirstAttempt] = NoData]

\* shutil.move of the attempt's .log to the output prefix
PromotedLog(l) == (l \ {FirstAttempt}) \cup {OutputPrefix}

\* PLINK opens <out>.log before anything else: every run leaves one,
\* whether it succeeds or fails.
Logged(l, out) == l \cup {out}

\* missnp.exists() and missnp.stat().st_size > 0
HasConflictsIfExists(f) == f.exists

HasConflicts(f) == f.exists /\ Len(f.lines) > 0

\* sum(1 for _ in open(missnp))
ConflictCount(f) == Len(f.lines)

\* exclude_snps=str(missnp): the markers the exclusion file names
ExcludeNothing(f) == {}

ExcludeSet(f) == Range(f.lines)

\* "--bfile", corrected_prefixes[0]
CorrectedBaseFromSubsets(sp, cp) == sp[1]

CorrectedBase(sp, cp) == cp[1]

\* "\n".join(corrected_prefixes[1:])
CorrectedListContent(sp, cp) == Tail1(cp)

\* "--out", output_prefix of the corrected merge
CorrectedTarget == OutputPrefix

\* merge.py:188-195: the corrected merge runs with the default check=True,
\* so a nonzero exit raises; otherwise control falls through to the report.
AfterCorrectedMergeRetry(kind, rc) ==
    IF kind = "conflict" THEN [result |-> "none", pc |-> "extract"]
    ELSE IF Raises(DefaultCheck, StartOf(kind), rc) THEN [result |-> "raised", pc |-> "done"]
    ELSE [result |-> "none", pc |-> "finish"]

AfterCorrectedMergeUnchecked(kind, rc) ==
    [result |-> "none", pc |-> "finish"]

AfterCorrectedMerge(kind, rc) ==
    IF Raises(DefaultCheck, StartOf(kind), rc) THEN [result |-> "raised", pc |-> "done"]
    ELSE [result |-> "none", pc |-> "finish"]

\* sum(1 for _ in open(fam)) / open(bim), 0 when the file is absent
SampleCount(d) == IF d.exists THEN Cardinality(d.samples) ELSE 0
VariantCount(d) == IF d.exists THEN Cardinality(d.markers) ELSE 0

ReadAll(paths) == [i \in 1..Len(paths) |-> data[paths[i]]]

\* The work directory as earlier runs can have left it.
StaleMissnp == {NoFile, TextFile(<<>>), TextFile(<<"m2">>)}
StaleOutput == {NoData, Dataset({"s1", "s2", "s3"}, {"m1", "m2", "m3"})}

\* The state before merge() is called, over a work directory holding the
\* output dataset so, the first attempt's conflict file first and the
\* output's conflict file second.
MergeStart(so, first, second) ==
    /\ pc = "idle"
    /\ plink_exec = ""
    /\ exc = ""
    /\ batch_prefixes = <<>>
    /\ keep_list = {}
    /\ convert_to_vcf = FALSE
    /\ data = [p \in DataPaths |->
                 IF p \in BatchPrefixes THEN SourceData(p)
                 ELSE IF p = OutputPrefix THEN so ELSE NoData]
    /\ logs = IF so.exists THEN {OutputPrefix} ELSE {}
    /\ missnp = first
    /\ out_missnp = second
    /\ merge_list = NoFile
    /\ corrected_list = NoFile
    /\ vcf = NoData
    /\ subset_prefixes = <<>>
    /\ corrected_prefixes = <<>>
    /\ report = MergeReport(0)
    /\ result = "none"
    /\ cmds = <<>>

MergeInit ==
    \E so \in StaleOutput, first \in StaleMissnp :
        MergeStart(so, first, NoFile)

\* merge.py:131-137: the call, up to the first extraction.
MergeCall(exec, bps, keep, tovcf) ==
    /\ pc = "idle"
    /\ UNCHANGED <<xferVars, pipeVars, fltVars>>
    /\ plink_exec' = exec
    /\ UNCHANGED exc
    /\ batch_prefixes' = bps
    /\ keep_list' = keep
    /\ convert_to_vcf' = tovcf
    /\ report' = MergeReport(Len(bps))
    /\ subset_prefixes' = <<>>
    /\ pc' = "extract"
    /\ UNCHANGED <<data, missnp, out_missnp, merge_list, corrected_list, vcf,
                   logs, corrected_prefixes, result, cmds>>

\* merge.py:138-142: one iteration of the extraction loop.
ExtractStep(start, crash) ==
    /\ pc = "extract"
    /\ UNCHANGED <<xferVars, pipeVars, fltVars>>
    /\ Len(subset_prefixes) < Len(batch_prefixes)
    /\ start \in StartOutcomes(plink_exec)
    /\ start # Started => ~crash
    /\ LET bp == batch_prefixes[Len(subset_prefixes) + 1]
           out == SubsetPath(bp)
           fails == crash \/ ExtractFails(data[bp], keep_list, {})
           rc == IF fails THEN 1 ELSE 0
           cmd == Cmd("extract", bp, <<>>, out, "", rc, crash)
       IN /\ cmds' = Append(cmds, IF start = Started THEN cmd
                                  ELSE NotStarted(cmd))
          /\ logs' = IF start = Started THEN Logged(logs, out) ELSE logs
          /\ IF Raises(DefaultCheck, start, rc)
             THEN /\ result' = "raised"
                  /\ exc' = Raised(start)
                  /\ pc' = "done"
                  /\ UNCHANGED <<data, subset_prefixes>>
             ELSE /\ data' = IF fails THEN data
                             ELSE [data EXCEPT ![out] =
                                     ExtractOutput(data[bp], keep_list, {})]
                  /\ subset_prefixes' = Append(subset_prefixes, out)
                  /\ UNCHANGED <<result, exc, pc>>
    /\ UNCHANGED <<plink_exec, batch_prefixes, keep_list, convert_to_vcf,
                   missnp, out_missnp, merge_list, corrected_list, vcf,
                   corrected_prefixes, report>>

\* merge.py:144-148: fewer than two subsets, the report is returned as is.
SkipMerge ==
    /\ pc = "extract"
    /\ UNCHANGED <<xferVars, pipeVars, fltVars>>
    /\ Len(subset_prefixes) = Len(batch_prefixes)
    /\ SkipsMerge(subset_prefixes)
    /\ report' = [report EXCEPT !.output_prefix =
                    IF subset_prefixes # <<>> THEN subset_prefixes[1] ELSE @]
    /\ result' = "returned"
    /\ pc' = "done"
    /\ UNCHANGED <<plink_exec, exc, batch_prefixes, keep_list, convert_to_vcf,
                   data, missnp, out_missnp, merge_list, corrected_list, vcf,
                   logs, subset_prefixes, corrected_prefixes, cmds>>

\* merge.py:150-164: the merge list and the first merge attempt.
FirstMergeAttempt(o) ==
    /\ pc = "extract"
    /\ UNCHANGED <<xferVars, pipeVars, fltVars>>
    /\ Len(subset_prefixes) = Len(batch_prefixes)
    /\ ~SkipsMerge(subset_prefixes)
    /\ LET list == Tail1(subset_prefixes)
           inputs == ReadAll(<<subset_prefixes[1]>> \o list)
           start == StartOf(o.kind)
           rc == IF o.kind = "ok" THEN 0 ELSE 1
           cmd == Cmd("merge", subset_prefixes[1], list, FirstAttempt, "", rc,
                      o.kind = "crash")
       IN /\ o \in RunOutcomes(plink_exec, inputs)
          /\ merge_list' = TextFile(list)
          /\ cmds' = Append(cmds, IF start = Started THEN cmd
                                  ELSE NotStarted(cmd))
          /\ data' = IF o.kind = "ok"
                     THEN [data EXCEPT ![FirstAttempt] = MergeOutput(inputs)]
                     ELSE data
          /\ missnp' = IF o.kind = "conflict" THEN TextFile(o.lines) ELSE missnp
          /\ logs' = IF start = Started THEN Logged(logs, FirstAttempt)
                     ELSE logs
          /\ IF Raises(FirstAttemptCheck, start, rc)
             THEN result' = "raised" /\ exc' = Raised(start) /\ pc' = "done"
             ELSE result' = result /\ exc' = exc /\ pc' = "detect"
    /\ UNCHANGED <<plink_exec, batch_prefixes, keep_list, convert_to_vcf,
                   out_missnp, corrected_list, vcf, subset_prefixes,
                   corrected_prefixes, report>>

\* merge.py:166-178: the conflict check on the side file.
DetectConflicts ==
    /\ pc = "detect"
    /\ UNCHANGED <<xferVars, pipeVars, fltVars>>
    /\ IF HasConflicts(missnp)
       THEN /\ report' = [report EXCEPT
                            !.conflict_snp_count = ConflictCount(missnp),
                            !.correction_applied = TRUE]
            /\ corrected_prefixes' = <<>>
            /\ pc' = "reextract"
       ELSE /\ pc' = "promote"
            /\ UNCHANGED <<report, corrected_prefixes>>
    /\ UNCHANGED <<plink_exec, exc, batch_prefixes, keep_list, convert_to_vcf,
                   data, missnp, out_missnp, merge_list, corrected_list, vcf,
                   logs, subset_prefixes, result, cmds>>

\* merge.py:179-183: one iteration of the re-extraction loop.
ReExtractStep(start, crash) ==
    /\ pc = "reextract"
    /\ UNCHANGED <<xferVars, pipeVars, fltVars>>
    /\ Len(corrected_prefixes) < Len(batch_prefixes)
    /\ start \in StartOutcomes(plink_exec)
    /\ start # Started => ~crash
    /\ LET bp == batch_prefixes[Len(corrected_prefixes) + 1]
           out == CorrectedPath(bp)
           excl == ExcludeSet(missnp)
           fails == crash \/ ExtractFails(data[bp], keep_list, excl)
           rc == IF fails THEN 1 ELSE 0
           cmd == Cmd("extract", bp, <<>>, out, MissnpPath, rc, crash)
       IN /\ cmds' = Append(cmds, IF start = Started THEN cmd
                                  ELSE NotStarted(cmd))
          /\ logs' = IF start = Started THEN Logged(logs, out) ELSE logs
          /\ IF Raises(DefaultCheck, start, rc)
             THEN /\ result' = "raised"
                  /\ exc' = Raised(start)
                  /\ pc' = "done"
                  /\ UNCHANGED <<data, corrected_prefixes>>
             ELSE /\ data' = IF fails THEN data
                             ELSE [data EXCEPT ![out] =
                                     ExtractOutput(data[bp], keep_list, excl)]
                  /\ corrected_prefixes' = Append(corrected_prefixes, out)
                  /\ UNCHANGED <<result, exc, pc>>
    /\ UNCHANGED <<plink_exec, batch_prefixes, keep_list, convert_to_vcf,
                   missnp, out_missnp, merge_list, corrected_list, vcf,
                   subset_prefixes, report>>

\* merge.py:185-195: the corrected merge list and the corrected merge.
CorrectedMerge(o) ==
    /\ pc = "reextract"
    /\ UNCHANGED <<xferVars, pipeVars, fltVars>>
    /\ Len(corrected_prefixes) = Len(batch_prefixes)
    /\ LET base == CorrectedBase(subset_prefixes, corrected_prefixes)
           list == CorrectedListContent(subset_prefixes, corrected_prefixes)
           inputs == ReadAll(<<base>> \o list)
           start == StartOf(o.kind)
           rc == IF o.kind = "ok" THEN 0 ELSE 1
           cmd == Cmd("merge", base, list, CorrectedTarget, "", rc,
                      o.kind = "crash")
           after == AfterCorrectedMerge(o.kind, rc)
       IN /\ o \in RunOutcomes(plink_exec, inputs)
          /\ corrected_list' = TextFile(list)
          /\ cmds' = Append(cmds, IF start = Started THEN cmd
                                  ELSE NotStarted(cmd))
          /\ data' = IF o.kind = "ok"
                     THEN [data EXCEPT ![CorrectedTarget] = MergeOutput(inputs)]
                     ELSE data
          /\ out_missnp' = IF o.kind = "conflict" THEN TextFile(o.lines)
                           ELSE out_missnp
          /\ logs' = IF start = Started THEN Logged(logs, CorrectedTarget)
                     ELSE logs
          /\ result' = after.result
          /\ exc' = IF after.result = "raised" THEN Raised(start) ELSE exc
          /\ pc' = after.pc
    /\ UNCHANGED <<plink_exec, batch_prefixes, keep_list, convert_to_vcf,
                   missnp, merge_list, vcf, subset_prefixes,
                   corrected_prefixes, report>>

\* merge.py:196-202: the files of the first attempt are moved to the
\* final output prefix, each one only if it exists. PLINK writes .bed, .bim
\* and .fam together or not at all; the .log is there without them after a
\* run that failed.
PromoteAttempt ==
    /\ pc = "promote"
    /\ UNCHANGED <<xferVars, pipeVars, fltVars>>
    /\ data' = IF data[FirstAttempt].exists THEN Promoted(data) ELSE data
    /\ logs' = IF FirstAttempt \in logs THEN PromotedLog(logs) ELSE logs
    /\ pc' = "finish"
    /\ UNCHANGED <<plink_exec, exc, batch_prefixes, keep_list, convert_to_vcf,
                   missnp, out_missnp, merge_list, corrected_list, vcf,
                   subset_prefixes, corrected_prefixes, report, result, cmds>>

\* merge.py:204-212: the report's output prefix and the counts read from
\* the .fam and .bim files at it.
CountedReport ==
    [report EXCEPT !.output_prefix = OutputPrefix,
                   !.final_sample_count = SampleCount(data[OutputPrefix]),
                   !.final_variant_count = VariantCount(data[OutputPrefix])]

\* merge.py:204-224: counting, the optional VCF export, the return.
FinishRun(start, crash) ==
    /\ pc = "finish"
    /\ UNCHANGED <<xferVars, pipeVars, fltVars>>
    /\ report' = CountedReport
    /\ pc' = "done"
    /\ IF convert_to_vcf
       THEN LET fails == crash \/ ~data[OutputPrefix].exists
                rc == IF fails THEN 1 ELSE 0
                cmd == Cmd("recode", OutputPrefix, <<>>, OutputPrefix, "", rc,
                           crash)
            IN /\ start \in StartOutcomes(plink_exec)
               /\ start # Started => ~crash
               /\ cmds' = Append(cmds, IF start = Started THEN cmd
                                       ELSE NotStarted(cmd))
               /\ vcf' = IF fails \/ start # Started THEN vcf
                         ELSE data[OutputPrefix]
               /\ logs' = IF start = Started THEN Logged(logs, OutputPrefix)
                          ELSE logs
               /\ result' = IF Raises(DefaultCheck, start, rc) THEN "raised"
                            ELSE "returned"
               /\ exc' = IF Raises(DefaultCheck, start, rc) THEN Raised(start)
                         ELSE exc
       ELSE /\ start = Started
            /\ crash = FALSE
            /\ result' = "returned"
            /\ UNCHANGED <<cmds, vcf, logs, exc>>
    /\ UNCHANGED <<plink_exec, batch_prefixes, keep_list, convert_to_vcf, data,
                   missnp, out_missnp, merge_list, corrected_list,
                   subset_prefixes, corrected_prefixes>>

\* ---------------------------------------------------------------------
\* SecureTransfer.send (transfer.py)

MaxFileSize == 2

FileNames == {"file_a.txt", "file_b.txt", "file_c.txt"}
SubdirNames == {"qc"}

\* A directory: its regular files (name -> size in bytes) and the names of
\* its subdirectories; a path that is a regular file; a path that is absent.
EmptyFiles == [n \in {} |-> 0]
Dir(files, subdirs) == [kind |-> "dir", files |-> files, subdirs |-> subdirs]
NoDir == [kind |-> "missing", files |-> EmptyFiles, subdirs |-> {}]
NotDir == [kind |-> "file", files |-> EmptyFiles, subdirs |-> {}]

FileSets(names) == UNION {[S -> 1..MaxFileSize] : S \in SUBSET names}

SourceDirs ==
    {NoDir, NotDir}
        \cup {Dir(f, sd) : f \in FileSets(FileNames), sd \in SUBSET SubdirNames}

\* The dated destination, as an earlier delivery of the same day left it.
DestDirs == {NoDir} \cup {Dir(f, {}) : f \in FileSets(FileNames)}

Methods == {"rsync", "copy"}

SourcePath == "delivery"
\* Path(dest_root) / f"{project_id}_Delivery_{datestamp}"
DestPath == "staging/" \o project_id \o "_Delivery_YYYYMMDD"

\* @dataclass TransferReport defaults
TransferReport(m) ==
    [source_dir |-> SourcePath, destination_dir |-> DestPath,
     file_count |-> 0, total_bytes |-> 0, verified |-> FALSE, method |-> m]

NoReport == TransferReport("")

\* files written over what the directory holds
Overlay(old, new) ==
    [n \in DOMAIN old \cup DOMAIN new |->
        IF n \in DOMAIN new THEN new[n] ELSE old[n]]

Restrict(f, S) == [n \in S |-> f[n]]

\* The delivery directory of a pipeline run: the dataset and the export at
\* the output prefix, and the other files. A size is a number of records.
OutName == OutputPrefix.name

DatasetFiles(d) ==
    IF ~d.exists THEN EmptyFiles
    ELSE [n \in {OutName \o ".bed", OutName \o ".bim", OutName \o ".fam"} |->
            IF n = OutName \o ".fam" THEN SampleCount(d)
            ELSE IF n = OutName \o ".bim" THEN VariantCount(d)
            ELSE SampleCount(d) * VariantCount(d)]

LogFiles(l) ==
    IF OutputPrefix \in l THEN [n \in {OutName \o ".log"} |-> 1]
    ELSE EmptyFiles

\* <output_prefix>-merge.missnp, left by a corrected merge that found
\* conflicts: one marker per line.
MissnpFiles(f) ==
    IF f.exists THEN [n \in {OutName \o "-merge.missnp"} |-> Len(f.lines)]
    ELSE EmptyFiles

VcfFiles(v) ==
    IF ~v.exists THEN EmptyFiles
    ELSE [n \in {OutName \o ".vcf.gz"} |-> VariantCount(v)]

DeliveryDir ==
    Dir(Overlay(delivery_files,
                Overlay(DatasetFiles(data[OutputPrefix]),
                        Overlay(LogFiles(logs),
                                Overlay(MissnpFiles(out_missnp),
                                        VcfFiles(vcf))))),
        {})

\* The directory send() reads: its argument, config.delivery_dir in a
\* pipeline run.
SourceDir == IF pipe_pc = "off" THEN src_dir ELSE DeliveryDir

\* src.is_dir()
SourceAlwaysOk(src) == TRUE

SourceOk(src) == src.kind = "dir"

\* dest.mkdir(parents=True, exist_ok=True)
MkDir(d) == IF d.kind = "dir" THEN d ELSE Dir(EmptyFiles, {})

\* _copy: shutil.copy2 of every regular file of src
CopiedMirror(src, dest) == Dir(src.files, dest.subdirs)

Copied(src, dest) == Dir(Overlay(dest.files, src.files), dest.subdirs)

\* _rsync: rsync -a src/ dest/ that exits 0
Synced(src, dest) ==
    Dir(Overlay(dest.files, src.files), dest.subdirs \cup src.subdirs)

RECURSIVE SumSizes(_, _)
SumSizes(f, S) ==
    IF S = {} THEN 0
    ELSE LET n == CHOOSE x \in S : TRUE IN f[n] + SumSizes(f, S \ {n})

\* [f for f in d.iterdir() if f.is_file()]
RegularFiles(d) == DOMAIN d.files

\* src_files and dst_files before the listing
NoListing == [src |-> {}, dst |-> {}]

\* f.stat() of a listed file finds it
StatOk(names, d) == names \subseteq RegularFiles(d)

\* sum(f.stat().st_size for f in dst_files)
TotalBytes(names, d) == SumSizes(d.files, names)

\* len(src_files) == len(dst_files)
VerifiedAtLeast(src_files, dst_files) ==
    Cardinality(src_files) <= Cardinality(dst_files)

Verified(src_files, dst_files) ==
    Cardinality(src_files) = Cardinality(dst_files)

\* @dataclass PipelineConfig
PipelineConfig(pid, cohort, excl, bps, exec, tovcf, m) ==
    [project_id |-> pid, cohort_file |-> cohort, exclusion_files |-> excl,
     batch_prefixes |-> bps, plink_exec |-> exec, convert_to_vcf |-> tovcf,
     transfer_method |-> m]

NoConfig == PipelineConfig("", "", <<>>, <<>>, "", FALSE, "")

\* @dataclass PipelineResult: a field is <<>> for None, else <<value>>
PipelineResult ==
    [filter_report |-> <<>>, merge_report |-> <<>>, manifest |-> <<>>,
     transfer_report |-> <<>>]

\* apply() arguments: output_path "" when no file is to be written
FilterArgs(cohort, excl, xset, out) ==
    [cohort_path |-> cohort, exclusion_paths |-> excl, exclusion_set |-> xset,
     output_path |-> out]

FltQuiet ==
    /\ flt_pc = "idle"
    /\ flt_args = FilterArgs("", <<>>, {}, "")
    /\ flt_report = [original_count |-> 0, exclusion_count |-> 0,
                     final_count |-> 0]
    /\ flt_status = "none"

PipeQuiet ==
    /\ FltQuiet
    /\ project_id = DefaultProjectId
    /\ pipe_pc = "off"
    /\ config = NoConfig
    /\ filtered = NoFile
    /\ delivery_files = EmptyFiles
    /\ pipe_result = PipelineResult
    /\ pipe_status = "none"

XferQuiet ==
    /\ xfer_pc = "idle"
    /\ src_dir = NoDir
    /\ dest_dir = NoDir
    /\ method = ""
    /\ xfer_report = NoReport
    /\ xfer_result = "none"
    /\ dest_before = NoDir
    /\ listed = NoListing
    /\ tampered = FALSE

\* transfer.py:79-91: the call, up to the transfer proper.
SendCall(m) ==
    /\ xfer_pc = "idle"
    /\ method' = m
    /\ dest_before' = dest_dir
    /\ IF SourceOk(SourceDir)
       THEN /\ dest_dir' = MkDir(dest_dir)
            /\ xfer_report' = TransferReport(m)
            /\ xfer_pc' = "transfer"
            /\ UNCHANGED xfer_result
       ELSE /\ xfer_result' = "NotADirectoryError"
            /\ xfer_pc' = "done"
            /\ UNCHANGED <<dest_dir, xfer_report>>
    /\ UNCHANGED <<src_dir, listed, tampered>>
    /\ UNCHANGED <<mergeVars, pipeVars, fltVars>>

\* transfer.py:93-94, 115-125: rsync, run with check=True; an rsync that
\* exits nonzero has transferred some of the files, one that cannot be
\* started none.
\* The ways one rsync run over the files names can end: every file sent and
\* exit status 0, a nonzero exit status after one of parts was sent, or no
\* run at all because rsync could not be started.
RsyncRuns(names, parts) ==
    {[start |-> Started, part |-> names, rc |-> 0]}
        \cup {[start |-> Started, part |-> p, rc |-> 1] : p \in parts}
        \cup {[start |-> e, part |-> {}, rc |-> NoExitStatus] : e \in StartErrors}

Rsync(start, part, rc) ==
    /\ xfer_pc = "transfer"
    /\ method = "rsync"
    /\ start = Started <=> rc # NoExitStatus
    /\ part \subseteq DOMAIN SourceDir.files
    /\ rc = 0 => part = DOMAIN SourceDir.files
    /\ start # Started => part = {}
    /\ IF ~Raises(TRUE, start, rc)
       THEN /\ dest_dir' = Synced(SourceDir, dest_dir)
            /\ xfer_pc' = "verify"
            /\ UNCHANGED xfer_result
       ELSE /\ dest_dir' = Dir(Overlay(dest_dir.files,
                                       Restrict(SourceDir.files, part)),
                               dest_dir.subdirs)
            /\ xfer_result' = Raised(start)
            /\ xfer_pc' = "done"
    /\ UNCHANGED <<src_dir, method, xfer_report, dest_before, listed,
                   tampered>>
    /\ UNCHANGED <<mergeVars, pipeVars, fltVars>>

\* transfer.py:95-96, 128-132
Copy ==
    /\ xfer_pc = "transfer"
    /\ method # "rsync"
    /\ dest_dir' = Copied(SourceDir, dest_dir)
    /\ xfer_pc' = "verify"
    /\ UNCHANGED <<src_dir, method, xfer_report, xfer_result, dest_before,
                   listed, tampered>>
    /\ UNCHANGED <<mergeVars, pipeVars, fltVars>>

\* Another process removes one file of the destination after the transfer
\* and before send() returns: before the listing of transfer.py:100,
\* between the listing and the stat of transfer.py:102, or after the stat.
Tamper(n) ==
    /\ xfer_pc \in {"verify", "stat", "compare"}
    /\ ~tampered
    /\ n \in DOMAIN dest_dir.files
    /\ dest_dir' = Dir(Restrict(dest_dir.files, DOMAIN dest_dir.files \ {n}),
                       dest_dir.subdirs)
    /\ tampered' = TRUE
    /\ UNCHANGED <<xfer_pc, src_dir, method, xfer_report, xfer_result,
                   dest_before, listed>>
    /\ UNCHANGED <<mergeVars, pipeVars, fltVars>>

\* transfer.py:99-101: the two listings and the count of the second
ListFiles ==
    /\ xfer_pc = "verify"
    /\ listed' = [src |-> RegularFiles(SourceDir),
                  dst |-> RegularFiles(dest_dir)]
    /\ xfer_report' = [xfer_report EXCEPT
                         !.file_count = Cardinality(RegularFiles(dest_dir))]
    /\ xfer_pc' = "stat"
    /\ UNCHANGED <<src_dir, dest_dir, method, xfer_result, dest_before,
                   tampered>>
    /\ UNCHANGED <<mergeVars, pipeVars, fltVars>>

\* transfer.py:102: the sizes of the listed files; stat() raises
\* FileNotFoundError for a listed file that is no longer there.
StatFiles ==
    /\ xfer_pc = "stat"
    /\ IF StatOk(listed.dst, dest_dir)
       THEN /\ xfer_report' = [xfer_report EXCEPT
                                 !.total_bytes = TotalBytes(listed.dst, dest_dir)]
            /\ xfer_pc' = "compare"
            /\ UNCHANGED xfer_result
       ELSE /\ xfer_result' = "FileNotFoundError"
            /\ xfer_pc' = "done"
            /\ UNCHANGED xfer_report
    /\ UNCHANGED <<src_dir, dest_dir, method, dest_before, listed, tampered>>
    /\ UNCHANGED <<mergeVars, pipeVars, fltVars>>

\* transfer.py:103-112: the comparison of the two counts, and the return
Verify ==
    /\ xfer_pc = "compare"
    /\ xfer_report' = [xfer_report EXCEPT
                         !.verified = Verified(listed.src, listed.dst)]
    /\ xfer_result' = "returned"
    /\ xfer_pc' = "done"
    /\ UNCHANGED <<src_dir, dest_dir, method, dest_before, listed, tampered>>
    /\ UNCHANGED <<mergeVars, pipeVars, fltVars>>

MergeQuiet ==
    /\ pc = "idle"
    /\ plink_exec = ""
    /\ exc = ""
    /\ batch_prefixes = <<>>
    /\ keep_list = {}
    /\ convert_to_vcf = FALSE
    /\ data = [p \in DataPaths |->
                 IF p \in BatchPrefixes THEN SourceData(p) ELSE NoData]
    /\ logs = {}
    /\ missnp = NoFile
    /\ out_missnp = NoFile
    /\ merge_list = NoFile
    /\ corrected_list = NoFile
    /\ vcf = NoData
    /\ subset_prefixes = <<>>
    /\ corrected_prefixes = <<>>
    /\ report = MergeReport(0)
    /\ result = "none"
    /\ cmds = <<>>

TransferInit ==
    /\ PipeQuiet
    /\ MergeQuiet
    /\ xfer_pc = "idle"
    /\ src_dir \in SourceDirs
    /\ dest_dir \in DestDirs
    /\ method = ""
    /\ xfer_report = NoReport
    /\ xfer_result = "none"
    /\ dest_before = NoDir
    /\ listed = NoListing
    /\ tampered = FALSE

TransferNext ==
    \/ \E m \in Methods : SendCall(m)
    \/ \E r \in When(xfer_pc = "transfer",
                     RsyncRuns(DOMAIN SourceDir.files,
                               SUBSET DOMAIN SourceDir.files)) :
          Rsync(r.start, r.part, r.rc)
    \/ Copy
    \/ \E n \in FileNames : Tamper(n)
    \/ ListFiles
    \/ StatFiles
    \/ Verify

TransferSpec == TransferInit /\ [][TransferNext]_vars

\* ---------------------------------------------------------------------
\* CohortFilter.apply (filter.py)

\* The cohort files: lines of whitespace-separated tokens.
CohortPaths == {"cohort_all.txt", "cohort_dup.txt", "cohort_missing.txt"}

CohortData(p) ==
    IF p = "cohort_all.txt"
    THEN TextFile(<< <<"s3", "s3">>, <<"s1", "s1">>, <<>>, <<"s2", "s2">> >>)
    ELSE IF p = "cohort_dup.txt"
    THEN TextFile(<< <<"s2">>, <<"s1">>, <<"s2">> >>)
    ELSE NoFile

\* The exclusion files: a header row, then rows of cells.
ExclusionPaths == {"excl_qc.csv", "excl_consent.csv", "excl_missing.csv"}

ExclusionData(p) ==
    IF p = "excl_qc.csv"
    THEN TextFile(<< <<"sample_id", "reason">>, <<"s1", "low call rate">>,
                     <<>>, <<"s1", "sex mismatch">> >>)
    ELSE IF p = "excl_consent.csv"
    THEN TextFile(<< <<"sample_id", "reason">>, <<" s3 ", "withdrawn">>,
                     <<"s9", "withdrawn">> >>)
    ELSE NoFile

\* @dataclass FilterReport
FilterReport(o, e, f) ==
    [original_count |-> o, exclusion_count |-> e, final_count |-> f]

\* str.strip() on the cells the exclusion files hold
Strip(c) == IF c = " s3 " THEN "s3" ELSE c

\* load_exclusion_set: the first cell, stripped, of every non-empty row
\* after the header
LoadExclusionSet(f) ==
    {Strip(f.lines[i][1]) : i \in {k \in 2..Len(f.lines) : f.lines[k] # <<>>}}

\* filter.py:149-152
ToExcludeFirstOnly(paths) ==
    IF paths = <<>> THEN {} ELSE LoadExclusionSet(ExclusionData(paths[1]))

ToExclude(paths) ==
    UNION {LoadExclusionSet(ExclusionData(paths[i])) : i \in 1..Len(paths)}

\* filter.py:155-160: the first token of every non-blank line
RECURSIVE OriginalIds(_)
OriginalIds(lines) ==
    IF lines = <<>> THEN <<>>
    ELSE IF Head(lines) = <<>> THEN OriginalIds(Tail(lines))
    ELSE <<Head(lines)[1]>> \o OriginalIds(Tail(lines))

\* filter.py:163
RECURSIVE Filtered(_, _)
Filtered(ids, excl) ==
    IF ids = <<>> THEN <<>>
    ELSE IF Head(ids) \in excl THEN Filtered(Tail(ids), excl)
    ELSE <<Head(ids)>> \o Filtered(Tail(ids), excl)

\* filter.py:174: "\n".join(filtered) + "\n", as the lines of the file
WrittenLines(ids) == IF ids = <<>> THEN <<"">> ELSE ids

\* The identifiers a keep-list file names.
KeepSet(f) == Range(f.lines) \ {""}

\* filter.py:144-146, 80-81: what apply raises
FilterErrorCohortOnly(cohort_path, exclusion_paths) ==
    ~CohortData(cohort_path).exists

FilterError(cohort_path, exclusion_paths) ==
    \/ ~CohortData(cohort_path).exists
    \/ \E i \in 1..Len(exclusion_paths) :
         ~ExclusionData(exclusion_paths[i]).exists

\* ---------------------------------------------------------------------
\* CohortFilter.apply called directly (filter.py:118-177)

MaxExclusionFiles == 2

FilteredPath == "work/cohort_filtered.txt"

\* The output file as an earlier call can have left it.
StaleFiltered == {NoFile, TextFile(<<"s9">>)}

FilterInit ==
    /\ project_id = DefaultProjectId
    /\ MergeQuiet
    /\ XferQuiet
    /\ FltQuiet
    /\ pipe_pc = "off"
    /\ config = NoConfig
    /\ filtered \in StaleFiltered
    /\ delivery_files = EmptyFiles
    /\ pipe_result = PipelineResult
    /\ pipe_status = "none"

Apply(cohort_path, exclusion_paths, exclusion_set, output_path) ==
    /\ flt_pc = "idle"
    /\ flt_args' = FilterArgs(cohort_path, exclusion_paths, exclusion_set,
                              output_path)
    /\ IF FilterError(cohort_path, exclusion_paths)
       THEN /\ flt_status' = "FileNotFoundError"
            /\ UNCHANGED <<filtered, flt_report>>
       ELSE LET to_exclude == exclusion_set \cup ToExclude(exclusion_paths)
                original_ids == OriginalIds(CohortData(cohort_path).lines)
                ids == Filtered(original_ids, to_exclude)
            IN /\ flt_report' = FilterReport(Len(original_ids),
                                             Cardinality(to_exclude), Len(ids))
               /\ filtered' = IF output_path # ""
                              THEN TextFile(WrittenLines(ids))
                              ELSE filtered
               /\ flt_status' = "returned"
    /\ flt_pc' = "done"
    /\ UNCHANGED <<project_id, pipe_pc, config, delivery_files, pipe_result,
                   pipe_status>>
    /\ UNCHANGED <<mergeVars, xferVars>>

\* apply() called with these lists of exclusion files.
ExclusionLists == SeqsUpTo(ExclusionPaths, MaxExclusionFiles)

FilterNext ==
    \E c \in When(flt_pc = "idle", CohortPaths), e \in ExclusionLists,
       x \in SUBSET Samples, o \in {"", FilteredPath} : Apply(c, e, x, o)

FilterSpec == FilterInit /\ [][FilterNext]_vars

\* ---------------------------------------------------------------------
\* ManifestGenerator (manifest.py)

\* The names the output prefix gives its files, as sorted() orders them:
\* "-" < ".".
OutputNames ==
    <<OutName \o "-merge.missnp", OutName \o ".bed", OutName \o ".bim", OutName \o ".fam",
      OutName \o ".log", OutName \o ".vcf.gz">>

\* The names a delivery directory can hold, as sorted() orders them: by
\* code point, "M" < "P" < "Q" < "R" < "S" < "_".
SortedNames ==
    IF project_id = "PROJ001"
    THEN <<"MANIFEST.tsv">> \o OutputNames
            \o <<"QC_STATUS.txt", "README.txt", "STATUS_SUMMARY.tsv">>
    ELSE <<"MANIFEST.tsv", "QC_STATUS.txt", "README.txt",
           "STATUS_SUMMARY.tsv">> \o OutputNames

\* A file name as the pieces a substring test can tell apart.
NameParts(n) ==
    IF n = "MANIFEST.tsv" THEN <<"MANIFEST", ".tsv">>
    ELSE IF n = "STATUS_SUMMARY.tsv" THEN <<"STATUS", "_SUMMARY.tsv">>
    ELSE IF n = "QC_STATUS.txt" THEN <<"QC_", "STATUS", ".txt">>
    ELSE <<n>>

\* pat in fp.name
Contains(n, pat) == \E i \in 1..Len(NameParts(n)) : NameParts(n)[i] = pat

\* manifest.py:112
DefaultExcludeManifest == {"MANIFEST"}

DefaultExclude == {"MANIFEST", "STATUS"}

\* @dataclass FileChecksum (the checksums of the content are left out)
FileChecksum(n, size) == [filename |-> n, file_size |-> size]

\* manifest.py:122-127 over the names from position i on
RECURSIVE Listed(_, _, _)
Listed(files, exclude, i) ==
    IF i > Len(SortedNames) THEN <<>>
    ELSE LET n == SortedNames[i]
         IN IF n \in DOMAIN files /\ ~\E pat \in exclude : Contains(n, pat)
            THEN <<FileChecksum(n, files[n])>> \o Listed(files, exclude, i + 1)
            ELSE Listed(files, exclude, i + 1)

\* generate(): the manifest of a directory
Generate(d, pid) ==
    [project_id |-> pid, files |-> Listed(d.files, DefaultExclude, 1)]

\* write_manifest: a header row and one row per file
ManifestRows(m) == Len(m.files) + 1

\* write_status_summary: a header row and the five metrics
StatusSummaryRows == 6

\* ---------------------------------------------------------------------
\* DeliveryPipeline.run (pipeline.py)

\* The configurations tried.
PipeExclusionLists ==
    {<<>>, <<"excl_qc.csv">>, <<"excl_qc.csv", "excl_consent.csv">>,
     <<"excl_missing.csv">>, <<"excl_qc.csv", "excl_missing.csv">>}

PipeBatchLists ==
    {<<>>, <<BatchA>>, <<BatchA, BatchB>>, <<BatchA2, BatchB>>,
     <<BatchA, BatchMissing>>}

PipeConfigs ==
    {PipelineConfig(pid, c, e, b, x, v, m) :
        x \in PlinkExecs, pid \in ProjectIds, c \in CohortPaths, e \in PipeExclusionLists, b \in PipeBatchLists,
        v \in BOOLEAN, m \in Methods}

\* What earlier deliveries can have left in the delivery directory and in
\* the dated destination.
StaleDelivery ==
    {EmptyFiles,
     [n \in {"MANIFEST.tsv", "QC_STATUS.txt", "README.txt",
             "STATUS_SUMMARY.tsv"} |->
         IF n = "STATUS_SUMMARY.tsv" THEN StatusSummaryRows ELSE 1]}

StaleDest == {NoDir, Dir([n \in {"README.txt"} |-> 1], {})}

StaleOutputData == CHOOSE so \in StaleOutput : so.exists
StaleDeliveryFiles == CHOOSE f \in StaleDelivery : f # EmptyFiles
StaleDestDir == CHOOSE d \in StaleDest : d # NoDir

World(so, first, second, delivery, dest) ==
    [output |-> so, missnp |-> first, out_missnp |-> second,
     delivery |-> delivery, dest |-> dest]

\* The directories as the runs before this one left them: no run; a run
\* that delivered; a run that delivered after correcting conflicts; a run
\* whose corrected merge found conflicts again; a run whose first attempt
\* left an empty conflict file.
PipeWorlds ==
    {World(NoData, NoFile, NoFile, EmptyFiles, NoDir),
     World(StaleOutputData, NoFile, NoFile, StaleDeliveryFiles, StaleDestDir),
     World(StaleOutputData, TextFile(<<"m2">>), NoFile, StaleDeliveryFiles,
           StaleDestDir),
     World(NoData, TextFile(<<"m2">>), TextFile(<<"m1">>), EmptyFiles, NoDir),
     World(NoData, TextFile(<<>>), NoFile, EmptyFiles, NoDir)}

PipeInit ==
    /\ project_id \in ProjectIds
    /\ \E w \in PipeWorlds :
         /\ MergeStart(w.output, w.missnp, w.out_missnp)
         /\ dest_dir = w.dest
         /\ delivery_files = w.delivery
    /\ xfer_pc = "idle"
    /\ src_dir = NoDir
    /\ method = ""
    /\ xfer_report = NoReport
    /\ xfer_result = "none"
    /\ dest_before = NoDir
    /\ listed = NoListing
    /\ tampered = FALSE
    /\ pipe_pc = "idle"
    /\ config = NoConfig
    /\ filtered = NoFile
    /\ pipe_result = PipelineResult
    /\ pipe_status = "none"
    /\ FltQuiet

\* pipeline.py:83-87
PipeRun(cfg) ==
    /\ pipe_pc = "idle"
    /\ cfg.project_id = project_id
    /\ config' = cfg
    /\ pipe_result' = PipelineResult
    /\ pipe_pc' = "filter"
    /\ UNCHANGED <<project_id, filtered, delivery_files, pipe_status>>
    /\ UNCHANGED <<mergeVars, xferVars, fltVars>>

\* pipeline.py:89-102: CohortFilter.apply (filter.py:144-177)
PipeFilter ==
    /\ pipe_pc = "filter"
    /\ IF FilterError(config.cohort_file, config.exclusion_files)
       THEN /\ pipe_status' = "FileNotFoundError"
            /\ pipe_pc' = "done"
            /\ UNCHANGED <<filtered, pipe_result>>
       ELSE LET to_exclude == ToExclude(config.exclusion_files)
                original_ids == OriginalIds(CohortData(config.cohort_file).lines)
                ids == Filtered(original_ids, to_exclude)
            IN /\ filtered' = TextFile(WrittenLines(ids))
               /\ pipe_result' =
                    [pipe_result EXCEPT !.filter_report =
                        <<FilterReport(Len(original_ids),
                                       Cardinality(to_exclude), Len(ids))>>]
               /\ pipe_pc' = "merge"
               /\ UNCHANGED pipe_status
    /\ UNCHANGED <<project_id, config, delivery_files>>
    /\ UNCHANGED <<mergeVars, xferVars, fltVars>>

\* pipeline.py:105-115: the call of GenotypeMerger.merge
PipeMerge ==
    /\ pipe_pc = "merge"
    /\ config.batch_prefixes # <<>>
    /\ MergeCall(config.plink_exec, config.batch_prefixes, KeepSet(filtered),
                 config.convert_to_vcf)

\* pipeline.py:105: no batch prefixes, no merge
PipeSkipMerge ==
    /\ pipe_pc = "merge"
    /\ config.batch_prefixes = <<>>
    /\ pipe_pc' = "manifest"
    /\ UNCHANGED <<project_id, config, filtered, delivery_files, pipe_result,
                   pipe_status>>
    /\ UNCHANGED <<mergeVars, xferVars, fltVars>>

\* pipeline.py:109: merge() has returned or raised
PipeMergeDone ==
    /\ pipe_pc = "merge"
    /\ pc = "done"
    /\ IF result = "returned"
       THEN /\ pipe_result' = [pipe_result EXCEPT !.merge_report = <<report>>]
            /\ pipe_pc' = "manifest"
            /\ UNCHANGED pipe_status
       ELSE /\ pipe_status' = exc
            /\ pipe_pc' = "done"
            /\ UNCHANGED pipe_result
    /\ UNCHANGED <<project_id, config, filtered, delivery_files>>
    /\ UNCHANGED <<mergeVars, xferVars, fltVars>>

\* pipeline.py:123-131: generate, write_manifest, write_status_summary
PipeManifest ==
    /\ pipe_pc = "manifest"
    /\ LET m == Generate(DeliveryDir, config.project_id)
       IN /\ pipe_result' = [pipe_result EXCEPT !.manifest = <<m>>]
          /\ delivery_files' =
               Overlay(delivery_files,
                       [n \in {"MANIFEST.tsv", "STATUS_SUMMARY.tsv"} |->
                           IF n = "MANIFEST.tsv" THEN ManifestRows(m)
                           ELSE StatusSummaryRows])
    /\ pipe_pc' = "send"
    /\ UNCHANGED <<project_id, config, filtered, pipe_status>>
    /\ UNCHANGED <<mergeVars, xferVars, fltVars>>

\* pipeline.py:133-141: the call of SecureTransfer.send
PipeSend ==
    /\ pipe_pc = "send"
    /\ SendCall(config.transfer_method)

\* pipeline.py:136-148: send() has returned or raised
PipeReturn ==
    /\ pipe_pc = "send"
    /\ xfer_pc = "done"
    /\ IF xfer_result = "returned"
       THEN /\ pipe_result' =
                 [pipe_result EXCEPT !.transfer_report = <<xfer_report>>]
            /\ pipe_status' = "returned"
       ELSE /\ pipe_status' = xfer_result
            /\ UNCHANGED pipe_result
    /\ pipe_pc' = "done"
    /\ UNCHANGED <<project_id, config, filtered, delivery_files>>
    /\ UNCHANGED <<mergeVars, xferVars, fltVars>>

PipeNext ==
    \/ \E cfg \in When(pipe_pc = "idle", PipeConfigs) : PipeRun(cfg)
    \/ PipeFilter
    \/ PipeMerge
    \/ PipeSkipMerge
    \/ \E start \in Starts, crash \in BOOLEAN : ExtractStep(start, crash)
    \/ SkipMerge
    \/ \E o \in When(pc = "extract", ToolOutcomes) : FirstMergeAttempt(o)
    \/ DetectConflicts
    \/ \E start \in Starts, crash \in BOOLEAN : ReExtractStep(start, crash)
    \/ \E o \in When(pc = "reextract", ToolOutcomes) : CorrectedMerge(o)
    \/ PromoteAttempt
    \/ \E start \in Starts, crash \in BOOLEAN : FinishRun(start, crash)
    \/ PipeMergeDone
    \/ PipeManifest
    \/ PipeSend
    \/ \E r \in When(xfer_pc = "transfer",
                     RsyncRuns(DOMAIN SourceDir.files,
                               SUBSET DOMAIN SourceDir.files)) :
          Rsync(r.start, r.part, r.rc)
    \/ Copy
    \/ \E n \in DOMAIN dest_dir.files : Tamper(n)
    \/ ListFiles
    \/ StatFiles
    \/ Verify
    \/ PipeReturn

PipeSpec == PipeInit /\ [][PipeNext]_vars

\* ---------------------------------------------------------------------
\* GenotypeMerger.merge called directly, with these batch lists and
\* keep-lists.
BatchLists == SeqsUpTo(BatchPrefixes, MaxBatches)
KeepLists == SUBSET Samples

Init == PipeQuiet /\ MergeInit /\ XferQuiet

Next ==
    \/ \E bps \in When(pc = "idle", BatchLists), keep \in KeepLists,
          tovcf \in BOOLEAN, exec \in PlinkExecs :
          MergeCall(exec, bps, keep, tovcf)
    \/ \E start \in Starts, crash \in BOOLEAN : ExtractStep(start, crash)
    \/ SkipMerge
    \/ \E o \in When(pc = "extract", ToolOutcomes) : FirstMergeAttempt(o)
    \/ DetectConflicts
    \/ \E start \in Starts, crash \in BOOLEAN : ReExtractStep(start, crash)
    \/ \E o \in When(pc = "reextract", ToolOutcomes) : CorrectedMerge(o)
    \/ PromoteAttempt
    \/ \E start \in Starts, crash \in BOOLEAN : FinishRun(start, crash)

Spec == Init /\ [][Next]_vars

\* ------------------------------------------------------------ properties
NBatches == Len(batch_prefixes)
MergeIdx == {k \in 1..Len(cmds) : cmds[k].op = "merge"}
FirstMergeIdx == {k \in MergeIdx : cmds[k].out = FirstAttempt}
CorrectedMergeIdx == {k \in MergeIdx : cmds[k].out = OutputPrefix}
ReExtractIdx ==
    {k \in 1..Len(cmds) : cmds[k].op = "extract" /\ cmds[k].excl # ""}
Returned == pc = "done" /\ result = "returned"
ConflictMarkers == Range(missnp.lines)

\* The conflict-marker file of the first attempt is missing or empty.
NoConflictFile == ~missnp.exists \/ missnp.lines = <<>>

\* The batch list names no base name twice (so no prefix twice).
DistinctNames ==
    \A i, j \in 1..NBatches :
        i # j => PathName(batch_prefixes[i]) # PathName(batch_prefixes[j])

BatchSamples(i) == SourceData(batch_prefixes[i]).samples
InEveryBatch == {x \in Samples : \A i \in 1..NBatches : x \in BatchSamples(i)}

\* The first attempt exited 0.
FirstAttemptOk == \E k \in FirstMergeIdx : cmds[k].rc = 0

\* This run has put a dataset at the final output prefix: the corrected
\* merge wrote it, or a successful first attempt was promoted to it.
FinalWritten ==
    \/ \E k \in CorrectedMergeIdx : cmds[k].rc = 0
    \/ /\ pc \in {"finish", "done"}
       /\ ~report.correction_applied
       /\ FirstAttemptOk

\* C1: a run holds at most one correction round: the merge tool is invoked
\* at most twice (one first attempt, at most one corrected merge), at most
\* one re-extraction with exclusions is issued per batch of the list, and
\* nothing but the VCF export follows the corrected merge, also when the
\* corrected merge reported conflicts of its own.
C1_AtMostOneCorrectionRound ==
    /\ Cardinality(MergeIdx) <= 2
    /\ Cardinality(FirstMergeIdx) <= 1
    /\ Cardinality(CorrectedMergeIdx) <= 1
    /\ Cardinality(ReExtractIdx) <= NBatches
    /\ ReExtractIdx # {} =>
         LET f == CHOOSE k \in ReExtractIdx : \A j \in ReExtractIdx : k <= j
         IN \A k \in ReExtractIdx :
              /\ k - f + 1 <= Cardinality(ReExtractIdx)
              /\ cmds[k].bfile = batch_prefixes[k - f + 1]
    /\ \A k \in CorrectedMergeIdx : \A j \in 1..Len(cmds) :
         j > k => cmds[j].op = "recode"

\* C1 witness: the corrected merge has reported conflicts and the run is over.
C1_Witness ==
    /\ pc = "done"
    /\ out_missnp.exists
    /\ Cardinality(MergeIdx) = 2
    /\ Cardinality(ReExtractIdx) = NBatches

\* C2: after a run of two or more batches whose first attempt left a
\* non-empty conflict-marker file, the report has correction_applied and a
\* conflict_snp_count equal to the number of distinct markers in the file.
C2_DistinctConflictCount ==
    (Returned /\ NBatches >= 2 /\ DistinctNames /\ ~NoConflictFile)
        => /\ report.correction_applied
           /\ report.conflict_snp_count = Cardinality(ConflictMarkers)

\* C3: a returned run that detected conflicts leaves at the final output
\* prefix a dataset with none of the markers of the conflict-marker file;
\* batches a and b, both typed on {m1, m2, m3}, with m2 conflicting give a
\* final marker count of 2, correction_applied and a conflict count of 1.
C3_NoConflictMarkerInFinal ==
    (Returned /\ report.correction_applied)
        => /\ data[OutputPrefix].exists
           /\ data[OutputPrefix].markers \cap ConflictMarkers = {}
           /\ report.final_variant_count
                = Cardinality(data[OutputPrefix].markers)
           /\ (batch_prefixes = <<BatchA, BatchB>> /\ missnp.lines = <<"m2">>)
                => /\ report.final_variant_count = 2
                   /\ report.conflict_snp_count = 1

\* C3 witness: the scenario's run has returned.
C3_Witness ==
    /\ Returned
    /\ report.correction_applied
    /\ batch_prefixes = <<BatchA, BatchB>>
    /\ keep_list = Samples
    /\ missnp.lines = <<"m2">>
    /\ data[OutputPrefix].markers = {"m1", "m3"}

\* C4: when the corrected merge is invoked, the commands just before it are
\* the re-extractions of every batch of the list, the base batch included,
\* each with the conflict-marker file as its exclusion list and each
\* successful; the corrected merge reads exactly their outputs, and every
\* dataset it reads is free of the excluded markers.
C4_UniformExclusion ==
    \A k \in CorrectedMergeIdx :
        LET ins == <<cmds[k].bfile>> \o cmds[k].list
        IN /\ Len(ins) = NBatches
           /\ k > NBatches
           /\ \A i \in 1..NBatches :
                /\ cmds[k - NBatches - 1 + i] =
                     Cmd("extract", batch_prefixes[i], <<>>, ins[i],
                         MissnpPath, 0, FALSE)
                /\ ins[i] = CorrectedPath(batch_prefixes[i])
                /\ data[ins[i]].exists
                /\ data[ins[i]].markers \cap ConflictMarkers = {}

\* C4 witness: a corrected merge over two batches has been invoked.
C4_Witness ==
    /\ CorrectedMergeIdx # {}
    /\ NBatches = 2
    /\ batch_prefixes[1] # batch_prefixes[2]
    /\ ConflictMarkers = {"m1", "m3"}

\* C5: a run in which a tool invocation exited nonzero without a non-empty
\* conflict-marker file beside it never returns a MergeReport.
C5_ToolFailureIsHard ==
    (Returned /\ DistinctNames) => \A k \in 1..Len(cmds) :
                   cmds[k].rc # 0 => ~NoConflictFile

\* C6 as stated: once the corrected merge has reported conflicts, the run
\* ends by returning the report with correction_applied.
C6_SecondConflictReturns ==
    (pc = "done" /\ out_missnp.exists)
        => result = "returned" /\ report.correction_applied

\* C6 amended: a corrected merge that was started and exits nonzero, as it
\* does when it reports conflicts, ends the run by raising
\* CalledProcessError: it is the last command, nothing is retried and no
\* report is returned.
C6_SecondConflictRaises ==
    \A k \in CorrectedMergeIdx :
        (cmds[k].started /\ cmds[k].rc # 0)
            => /\ k = Len(cmds)
               /\ pc = "done"
               /\ result = "raised"
               /\ exc = "CalledProcessError"

\* C6 witness: the corrected merge has reported conflicts.
C6_Witness ==
    /\ out_missnp.exists
    /\ \E k \in CorrectedMergeIdx :
         cmds[k].started /\ cmds[k].rc # 0 /\ ~cmds[k].fault

\* The commands issued since the first merge attempt.
AfterFirstMerge ==
    IF FirstMergeIdx = {} THEN <<>>
    ELSE LET f == CHOOSE k \in FirstMergeIdx : TRUE
         IN SubSeq(cmds, f + 1, Len(cmds))

\* C7 as stated: a run that detected conflicts on its first attempt ends
\* without an error, having re-extracted every batch and invoked exactly
\* one corrected merge on the final output prefix (batches with distinct
\* names, no fault of the environment).
C7_ConflictNeverHalts ==
    (pc = "done" /\ report.correction_applied /\ DistinctNames
        /\ \A k \in 1..Len(cmds) : ~cmds[k].fault)
        => /\ result = "returned"
           /\ Cardinality(ReExtractIdx) = NBatches
           /\ Cardinality(CorrectedMergeIdx) = 1

\* C7 amended: a first attempt that exits nonzero is never raised; once a
\* non-empty conflict-marker file is detected the run re-extracts the
\* batches in list order, and when every re-extraction has succeeded
\* exactly one corrected merge on the final output prefix follows.  The run
\* raises after detection only when a re-extraction (as when the exclusion
\* leaves a batch no marker), the corrected merge or the export exits
\* nonzero or cannot be started, and until it has ended it always has a
\* next step.
C7_ConflictStartsCorrection ==
    /\ \A k \in FirstMergeIdx :
         (k = Len(cmds) /\ cmds[k].started) => result # "raised"
    /\ report.correction_applied =>
         LET after == AfterFirstMerge
             n == Len(after)
         IN /\ FirstMergeIdx # {}
            /\ \A i \in 1..n : i <= NBatches =>
                 /\ after[i].op = "extract"
                 /\ after[i].bfile = batch_prefixes[i]
                 /\ after[i].excl = MissnpPath
            /\ n > NBatches => /\ after[NBatches + 1].op = "merge"
                               /\ after[NBatches + 1].out = OutputPrefix
                               /\ \A i \in 1..NBatches : after[i].rc = 0
            /\ (pc = "done" /\ \A i \in 1..n : i <= NBatches => after[i].rc = 0)
                 => Cardinality(CorrectedMergeIdx) = 1
            /\ result = "raised" => n > 0 /\ after[n].rc # 0
            /\ pc \in {"reextract", "finish", "done"}
            /\ pc # "done" => ENABLED Next

\* C7 witness: conflicts were detected and the run has ended with every
\* batch re-extracted and one corrected merge.
C7_Witness ==
    /\ Returned
    /\ report.correction_applied
    /\ Cardinality(ReExtractIdx) = NBatches
    /\ Cardinality(CorrectedMergeIdx) = 1
    /\ \E k \in FirstMergeIdx : cmds[k].rc # 0

\* C8: once the first attempt of a run of two or more batches has left no
\* conflict-marker file (missing or empty), the report keeps
\* correction_applied false and conflict_snp_count 0 and no batch is
\* re-extracted with exclusions.
C8_CleanNoCorrection ==
    (NBatches >= 2 /\ FirstMergeIdx # {} /\ NoConflictFile
        /\ pc \in {"promote", "finish", "done"})
        => /\ ~report.correction_applied
           /\ report.conflict_snp_count = 0
           /\ ReExtractIdx = {}
           /\ CorrectedMergeIdx = {}

\* C8 witness: a run whose first attempt left an empty conflict-marker file
\* has returned.
C8_Witness ==
    /\ Returned
    /\ NBatches >= 2
    /\ missnp = TextFile(<<>>)
    /\ \E k \in FirstMergeIdx : cmds[k].rc = 0

\* C9: a clean run (first attempt exits 0, no conflict-marker
\* file) of batches with distinct names reports as final_sample_count the
\* number of samples that are in the keep-list and in every batch.
C9_CountIsIntersection ==
    (Returned /\ NBatches >= 2 /\ DistinctNames /\ FirstAttemptOk
        /\ NoConflictFile)
        => report.final_sample_count = Cardinality(keep_list \cap InEveryBatch)

\* C10: the dataset a run of batches with distinct names has put
\* at the final output prefix holds only samples that are in the keep-list
\* and in every batch.
C10_SubsetOfIntersection ==
    (Returned /\ DistinctNames /\ FinalWritten)
        => data[OutputPrefix].samples \subseteq (keep_list \cap InEveryBatch)

\* The exports among the commands.
RecodeIdx == {k \in 1..Len(cmds) : cmds[k].op = "recode"}

\* C11: a run over a single batch extracts that batch once and returns: no
\* merge, no re-extraction and no export is issued, the report keeps
\* conflict_snp_count 0 and correction_applied false, and its output_prefix
\* is the subset just written; the run raises only if the extraction fails.
C11_SingleBatchNoOp ==
    (pc = "done" /\ NBatches = 1)
        => /\ Len(cmds) = 1
           /\ cmds[1].op = "extract"
           /\ cmds[1].bfile = batch_prefixes[1]
           /\ cmds[1].out = SubsetPath(batch_prefixes[1])
           /\ cmds[1].excl = ""
           /\ result = "returned" <=> cmds[1].rc = 0
           /\ result = "returned" =>
                /\ report.batch_count = 1
                /\ report.conflict_snp_count = 0
                /\ ~report.correction_applied
                /\ report.output_prefix = SubsetPath(batch_prefixes[1])
                /\ data[report.output_prefix] =
                     ExtractOutput(SourceData(batch_prefixes[1]), keep_list, {})
                /\ data[FirstAttempt] = NoData

\* C11 witness: a single-batch run asked to export has returned.
C11_Witness ==
    /\ Returned
    /\ NBatches = 1
    /\ convert_to_vcf
    /\ data[report.output_prefix].samples = {"s2", "s3"}

\* C12: the counts of a returned report are the sample and marker record
\* counts of the dataset at the report's output_prefix.
C12_CountsArePersisted ==
    (Returned /\ report.output_prefix # NoArg)
        => /\ report.final_sample_count
                = SampleCount(data[report.output_prefix])
           /\ report.final_variant_count
                = VariantCount(data[report.output_prefix])

\* C13: every extraction that exits 0 has left at its output prefix the
\* samples of its batch that the keep-list names and the markers of its
\* batch outside the exclusion list, and no batch is ever modified; an
\* extraction whose batch shares no sample with the keep-list exits
\* nonzero, which raises at once, so that no merge is attempted after a
\* failed first-round extraction.
C13_ExtractIsIntersection ==
    /\ \A p \in BatchPrefixes : data[p] = SourceData(p)
    /\ \A k \in 1..Len(cmds) : cmds[k].op = "extract" =>
         LET B == SourceData(cmds[k].bfile)
             excl == IF cmds[k].excl = "" THEN {} ELSE ConflictMarkers
             last == \A j \in 1..Len(cmds) :
                        (j > k /\ cmds[j].op = "extract" /\ cmds[j].rc = 0)
                            => cmds[j].out # cmds[k].out
         IN /\ cmds[k].rc = 0 =>
                 /\ B.exists
                 /\ B.samples \cap keep_list # {}
                 /\ last => /\ data[cmds[k].out].exists
                            /\ data[cmds[k].out].samples
                                 = B.samples \cap keep_list
                            /\ data[cmds[k].out].markers = B.markers \ excl
            /\ cmds[k].rc # 0 =>
                 /\ k = Len(cmds)
                 /\ pc = "done"
                 /\ result = "raised"
                 /\ cmds[k].excl = "" => MergeIdx = {}

\* C13 witness: the second batch shares no sample with the keep-list, its
\* extraction has failed after the first one succeeded, and the run is over.
C13_Witness ==
    /\ pc = "done"
    /\ result = "raised"
    /\ batch_prefixes = <<BatchB, BatchA>>
    /\ keep_list = {"s3"}
    /\ Len(cmds) = 2
    /\ ~cmds[2].fault
    /\ data[SubsetPath(BatchB)].samples = {"s3"}

\* C14: successful extractions of distinct batch prefixes write to distinct
\* output prefixes within a round, and never to a prefix of the batch list.
C14_DistinctStagePaths ==
    /\ \A k \in 1..Len(cmds) : cmds[k].op = "extract" =>
         \A i \in 1..NBatches : cmds[k].out # batch_prefixes[i]
    /\ \A k, j \in 1..Len(cmds) :
         (/\ k < j
          /\ cmds[k].op = "extract" /\ cmds[j].op = "extract"
          /\ cmds[k].rc = 0 /\ cmds[j].rc = 0
          /\ cmds[k].excl = cmds[j].excl
          /\ cmds[k].bfile # cmds[j].bfile)
            => cmds[k].out # cmds[j].out

\* C16: once a clean first attempt (exit 0, no conflict-marker file) has
\* been promoted, the merged dataset and its log are at the final output
\* prefix and no longer at the attempt prefix; a run that detected
\* conflicts never
\* reaches the promotion, and the only step that changes the dataset at
\* the final output prefix is then a corrected merge that exits 0.
C16_PromotionOfCleanAttempt ==
    /\ []((pc \in {"finish", "done"} /\ NBatches >= 2 /\ FirstAttemptOk
             /\ ~report.correction_applied)
            => /\ data[OutputPrefix] = MergeOutput(ReadAll(subset_prefixes))
               /\ ~data[FirstAttempt].exists
               /\ OutputPrefix \in logs
               /\ FirstAttempt \notin logs)
    /\ [](report.correction_applied => pc # "promote")
    /\ [][(report.correction_applied
             /\ data'[OutputPrefix] # data[OutputPrefix])
            => /\ Len(cmds') = Len(cmds) + 1
               /\ cmds'[Len(cmds')].op = "merge"
               /\ cmds'[Len(cmds')].out = OutputPrefix
               /\ cmds'[Len(cmds')].rc = 0]_vars

\* C16 witness: a clean attempt has replaced a stale dataset at the final
\* output prefix.
C16_Witness ==
    /\ Returned
    /\ NBatches >= 2
    /\ FirstAttemptOk
    /\ ~report.correction_applied
    /\ data[OutputPrefix].samples = {"s2"}
    /\ ~data[FirstAttempt].exists
    /\ logs \cap {OutputPrefix, FirstAttempt} = {OutputPrefix}

\* C17: no export is issued when convert_to_vcf is false; when it is true a
\* run of two or more batches that returns has issued exactly one, as its
\* last command, on the final output prefix and after this run put its
\* dataset there; an export that exits nonzero raises.
C17_ExportOptionalAndLast ==
    DistinctNames =>
        /\ ~convert_to_vcf => RecodeIdx = {}
        /\ Cardinality(RecodeIdx) <= 1
        /\ (Returned /\ convert_to_vcf /\ NBatches >= 2) => RecodeIdx # {}
        /\ \A k \in RecodeIdx :
             /\ k = Len(cmds)
             /\ cmds[k].bfile = OutputPrefix
             /\ cmds[k].rc # 0 => result = "raised"
             /\ FinalWritten

\* C18: a send that returns reports as file_count the number of regular
\* files it listed in the destination, which are the files the destination
\* held at the listing, and verified exactly when that number is the
\* number of regular files of the source; a copy of K regular files to a
\* destination without files that nothing else touches returns verified
\* with file_count K, every file having arrived; and when one of the
\* copied files was removed before the listing the report is unverified.
C18_CopyIsVerifiedByCount ==
    /\ xfer_pc \in {"stat", "compare"}
         => /\ RegularFiles(dest_dir) \subseteq listed.dst
            /\ ~tampered => listed.dst = RegularFiles(dest_dir)
            /\ xfer_report.file_count = Cardinality(listed.dst)
    /\ xfer_result = "returned"
         => /\ listed.src = RegularFiles(SourceDir)
            /\ xfer_report.file_count = Cardinality(listed.dst)
            /\ xfer_report.verified
                 <=> Cardinality(listed.src) = Cardinality(listed.dst)
            /\ (method = "copy" /\ RegularFiles(dest_before) = {})
                 => /\ ~tampered
                      => /\ xfer_report.verified
                         /\ xfer_report.file_count
                              = Cardinality(RegularFiles(SourceDir))
                         /\ dest_dir.files = SourceDir.files
                    /\ (tampered /\ listed.dst = RegularFiles(dest_dir))
                      => /\ ~xfer_report.verified
                         /\ xfer_report.file_count
                              = Cardinality(RegularFiles(SourceDir)) - 1

\* C18 witness: two files were copied to a destination that did not exist
\* and the report is verified with file_count 2.
C18_Witness ==
    /\ xfer_result = "returned"
    /\ method = "copy"
    /\ dest_before = NoDir
    /\ ~tampered
    /\ RegularFiles(SourceDir) = {"file_a.txt", "file_b.txt"}
    /\ listed.dst = {"file_a.txt", "file_b.txt"}
    /\ xfer_report.verified
    /\ xfer_report.file_count = 2

\* C20: a send whose source is not an existing directory ends at once with
\* NotADirectoryError: the destination is as it was when send was called
\* (not created, nothing copied) and no report was made; no other send
\* raises that error.
C20_SourceCheckedFirst ==
    /\ (xfer_pc # "idle" /\ SourceDir.kind # "dir")
         => /\ xfer_pc = "done"
            /\ xfer_result = "NotADirectoryError"
            /\ dest_dir = dest_before
            /\ xfer_report = NoReport
    /\ xfer_result = "NotADirectoryError" => SourceDir.kind # "dir"

\* C20 witness: the source path is a regular file, the send has raised and
\* the destination directory still does not exist.
C20_Witness ==
    /\ xfer_result = "NotADirectoryError"
    /\ SourceDir = NotDir
    /\ method = "copy"
    /\ dest_dir = NoDir

\* An input of the pipeline run is missing.
InputError ==
    \/ FilterError(config.cohort_file, config.exclusion_files)
    \/ \E i \in 1..Len(config.batch_prefixes) :
         ~SourceData(config.batch_prefixes[i]).exists

\* C15: a pipeline run with a missing cohort file, exclusion file or batch
\* (and no other fault) ends by raising with nothing written: no filtered
\* list, no subset or attempt in the work directory, no merge issued, no
\* manifest, and no send.
C15_InputErrorFailsFast ==
    (pipe_pc = "done" /\ InputError
       /\ \A k \in 1..Len(cmds) : ~cmds[k].fault)
        => /\ pipe_status \notin {"none", "returned"}
           /\ ~filtered.exists
           /\ \A p \in DataPaths \ (BatchPrefixes \cup {OutputPrefix}) :
                ~data[p].exists
           /\ MergeIdx = {}
           /\ pipe_result.manifest = <<>>
           /\ xfer_pc = "idle"

\* C19: a send that has listed the files of both sides returns; when the
\* source and the destination then hold different numbers of regular files
\* the report
\* says verified = false, and the pipeline run returns its PipelineResult
\* with that report as transfer_report.
C19_MismatchIsReported ==
    /\ (xfer_pc = "done" /\ listed # NoListing) => xfer_result = "returned"
    /\ (xfer_result = "returned"
          /\ Cardinality(listed.src) # Cardinality(listed.dst))
         => ~xfer_report.verified
    /\ (pipe_pc = "done" /\ xfer_result = "returned")
         => /\ pipe_status = "returned"
            /\ pipe_result.transfer_report = <<xfer_report>>

\* C25: a run whose own first merge attempt exits 0 (batches with distinct
\* names), whatever conflict-marker file an earlier run left in the work
\* directory, does not report correction_applied and issues no
\* re-extraction with exclusions.
C25_StaleMarkersIgnored ==
    (DistinctNames /\ FirstAttemptOk)
        => /\ ~report.correction_applied
           /\ report.conflict_snp_count = 0
           /\ ReExtractIdx = {}

\* An invocation of the tool has exited nonzero without that being the
\* first merge attempt's report of conflicts.
HardToolFailure ==
    \E k \in 1..Len(cmds) :
        /\ cmds[k].rc # 0
        /\ ~(cmds[k].op = "merge" /\ cmds[k].out = FirstAttempt
               /\ ~cmds[k].fault)

\* C24: in a pipeline run the merge starts after the filter has reported,
\* the manifest after the merge has returned (or was skipped for lack of
\* batch prefixes, merge_report staying None), the transfer after the
\* manifest; a run without batch prefixes that returns has a manifest and a
\* transfer report; and after a stage has failed (an exception, or a hard
\* failure of the tool) no later stage executes.
C24_StagesInOrder ==
    /\ pc # "idle" => pipe_result.filter_report # <<>>
    /\ pipe_result.manifest # <<>>
         => /\ pipe_result.filter_report # <<>>
            /\ IF config.batch_prefixes = <<>>
               THEN pipe_result.merge_report = <<>> /\ pc = "idle"
               ELSE pipe_result.merge_report = <<report>> /\ Returned
    /\ xfer_pc # "idle" => pipe_result.manifest # <<>>
    /\ pipe_result.transfer_report # <<>> => pipe_status = "returned"
    /\ (pipe_status = "returned" /\ config.batch_prefixes = <<>>)
         => /\ cmds = <<>>
            /\ pipe_result.merge_report = <<>>
            /\ pipe_result.manifest # <<>>
            /\ pipe_result.transfer_report = <<xfer_report>>
    /\ (pipe_pc = "done" /\ pipe_result.filter_report = <<>>)
         => pc = "idle" /\ pipe_result = PipelineResult /\ xfer_pc = "idle"
    /\ result = "raised"
         => pipe_result.manifest = <<>> /\ xfer_pc = "idle"
    /\ (pipe_pc = "done" /\ pipe_status # "returned")
         => pipe_result.transfer_report = <<>>
    /\ HardToolFailure => pipe_result.manifest = <<>> /\ xfer_pc = "idle"

\* The cohort identifiers of a call of apply: the first token of every
\* non-blank line of the cohort file, in file order.
CohortIds ==
    LET NonBlank(l) == l # <<>>
        nb == SelectSeq(CohortData(flt_args.cohort_path).lines, NonBlank)
    IN [i \in 1..Len(nb) |-> nb[i][1]]

\* The identifiers its exclusion sources name: the pre-loaded set and every
\* exclusion file.
ExclusionSources ==
    flt_args.exclusion_set
        \cup UNION {LoadExclusionSet(ExclusionData(flt_args.exclusion_paths[i])) :
                      i \in 1..Len(flt_args.exclusion_paths)}

\* The cohort identifiers outside the exclusion sources, in cohort order.
ExpectedOutput ==
    LET Kept(x) == x \notin ExclusionSources IN SelectSeq(CohortIds, Kept)

\* C21: an apply that returns reports as original_count the number of
\* cohort identifiers and as final_count the number of those outside every
\* exclusion source; given an output path, the file holds exactly those
\* identifiers, one per line and in cohort order (one empty line when there
\* is none), so none of them is an excluded identifier.
C21_FilterKeepsOrder ==
    flt_status = "returned" =>
        /\ flt_report.original_count = Len(CohortIds)
        /\ flt_report.final_count = Len(ExpectedOutput)
        /\ flt_args.output_path # "" =>
             /\ filtered.exists
             /\ filtered.lines = IF ExpectedOutput = <<>> THEN <<"">>
                                 ELSE ExpectedOutput
             /\ Range(filtered.lines) \cap ExclusionSources = {}

\* C21 witness: the cohort s3, s1, (blank), s2 was filtered against two
\* exclusion files and the pre-loaded set {s2}; nothing is left.
C21_Witness ==
    /\ flt_status = "returned"
    /\ flt_args.cohort_path = "cohort_all.txt"
    /\ flt_args.exclusion_paths = <<"excl_qc.csv", "excl_consent.csv">>
    /\ flt_args.exclusion_set = {"s2"}
    /\ flt_args.output_path = FilteredPath
    /\ flt_report.original_count = 3
    /\ flt_report.final_count = 0

\* C22: an apply ends with FileNotFoundError exactly when its cohort file
\* or one of its exclusion files is missing, and the step that raises leaves
\* the output file as it was.
C22_MissingInputRaises ==
    /\ [](flt_pc = "done" =>
            (flt_status = "FileNotFoundError"
               <=> \/ ~CohortData(flt_args.cohort_path).exists
                   \/ \E i \in 1..Len(flt_args.exclusion_paths) :
                        ~ExclusionData(flt_args.exclusion_paths[i]).exists))
    /\ [](flt_pc = "done" => flt_status \in {"FileNotFoundError", "returned"})
    /\ [][flt_status' = "FileNotFoundError"
            => filtered' = filtered /\ flt_report' = flt_report]_vars

\* C22 witness: the second exclusion file is missing; the call has raised
\* and the output file of an earlier call is still there.
C22_Witness ==
    /\ flt_status = "FileNotFoundError"
    /\ flt_args.cohort_path = "cohort_all.txt"
    /\ flt_args.exclusion_paths = <<"excl_qc.csv", "excl_missing.csv">>
    /\ flt_args.output_path = FilteredPath
    /\ filtered = TextFile(<<"s9">>)

\* The name holds one of the reserved tokens MANIFEST and STATUS.
Reserved(n) ==
    \E i \in 1..Len(NameParts(n)) : NameParts(n)[i] \in {"MANIFEST", "STATUS"}

\* C23: the manifest of a pipeline run lists, each once and with its size,
\* exactly the files of the delivery directory whose names hold no reserved
\* token: never MANIFEST.tsv or STATUS_SUMMARY.tsv, whether this run or an
\* earlier one wrote them.
C23_ManifestSkipsReserved ==
    pipe_result.manifest # <<>> =>
        LET m == pipe_result.manifest[1].files
        IN /\ {m[i].filename : i \in 1..Len(m)}
                = {n \in DOMAIN DeliveryDir.files : ~Reserved(n)}
           /\ \A i, j \in 1..Len(m) :
                i # j => m[i].filename # m[j].filename
           /\ \A i \in 1..Len(m) :
                /\ m[i].filename \notin {"MANIFEST.tsv", "STATUS_SUMMARY.tsv"}
                /\ m[i].file_size = DeliveryDir.files[m[i].filename]

\* C23 witness: a run over a delivery directory that an earlier run left
\* with MANIFEST.tsv, QC_STATUS.txt, README.txt and STATUS_SUMMARY.tsv has
\* listed the four files of the merged dataset of project PROJ001 and,
\* after them, README.txt.
C23_Witness ==
    /\ pipe_status = "returned"
    /\ Len(pipe_result.manifest) = 1
    /\ Len(pipe_result.manifest[1].files) = 5
    /\ pipe_result.manifest[1].files[1].filename
         = "PROJ001_final_genotypes.bed"
    /\ pipe_result.manifest[1].files[5].filename = "README.txt"
    /\ "QC_STATUS.txt" \in DOMAIN DeliveryDir.files
    /\ "MANIFEST.tsv" \in DOMAIN DeliveryDir.files

\* The names of the regular files the verification listed in the source
\* and in the destination.
SourceNames == listed.src
DestNames == listed.dst

\* C26 as stated: a copy send that returns says verified exactly when the
\* destination holds the same regular-file names as the source.
C26_VerifiedIffSameNames ==
    (xfer_result = "returned" /\ method = "copy")
        => (xfer_report.verified <=> DestNames = SourceNames)

\* C26: a copy send that returns says verified exactly when the
\* destination holds as many regular files as the source; when nothing but
\* the send touched the destination that is exactly when both hold the same
\* names, and a destination that already held a file the source lacks gives
\* verified = false.
C26_VerifiedIffSameCount ==
    (xfer_result = "returned" /\ method = "copy")
        => /\ xfer_report.verified
                <=> Cardinality(DestNames) = Cardinality(SourceNames)
           /\ ~tampered => (xfer_report.verified <=> DestNames = SourceNames)
           /\ (~tampered /\ DOMAIN dest_before.files \ SourceNames # {})
                => ~xfer_report.verified

\* C26 witness: the destination held file_c.txt of an earlier transfer, two
\* other files were copied into it, and the report is unverified.
C26_Witness ==
    /\ xfer_result = "returned"
    /\ method = "copy"
    /\ ~tampered
    /\ DOMAIN dest_before.files = {"file_c.txt"}
    /\ SourceNames = {"file_a.txt", "file_b.txt"}
    /\ DestNames = {"file_a.txt", "file_b.txt", "file_c.txt"}
    /\ ~xfer_report.verified

====
